---- MODULE Spec2Model ----
(***************************************************************************)
(* Model of src/app.py: the Parcelforce weekly summary -> CSV service.     *)
(*                                                                         *)
(* A Python string is modelled as a sequence of tokens.  A token is either *)
(* a single character (a digit, a white-space or a punctuation character)  *)
(* or a run of word characters written as one TLA+ string ("Monday",       *)
(* "Stops", "LON").  Every regular expression of the source starts and     *)
(* ends its literals on token borders of the texts drawn below, so a       *)
(* match is a range of token indexes; character offsets are recovered      *)
(* from the tokens' widths where the source counts characters (.{0,120}    *)
(* and [:1200]).                                                           *)
(***************************************************************************)
EXTENDS Integers, Sequences, FiniteSets, TLC

VARIABLES
    pc,        \* "idle", or the handler that produced the current response
    page1,     \* process_url: page1 (text of the first page)
    meta,      \* process_url: meta  (result of extract_meta)
    regions,   \* extract_days: regions (result of build_day_region_map)
    days,      \* process_url: days  (result of extract_days)
    rows,      \* process_url: rows  (result of rows_for_csv)
    response   \* the HTTP response returned by the handler

vars == <<pc, page1, meta, regions, days, rows, response>>

-----------------------------------------------------------------------------
(* Characters and tokens *)

DAY_NAMES == <<"Monday", "Tuesday", "Wednesday", "Thursday", "Friday", "Saturday">>

Digits == {"0", "1", "2", "3", "4", "5", "6", "7", "8", "9"}

\* Tokens standing for one character that has no ASCII spelling, and for
\* filler: NBSP is U+00A0, POUND is the pound sign, PAD is a run of PadLen
\* letters "x", FRAG is what is left of a word token cut by a slice.
NBSP == "<nbsp>"
POUND == "<pound>"
PAD == "<pad>"
FRAG == "<frag>"

\* Python's \s on str patterns, and str.strip(): Unicode white space.
IsSpace(c) == c \in {" ", "\n", "\t", "\r", NBSP}

IsDigit(c) == c \in Digits

Punct == {":", ".", "*", "-", "/", ",", "(", ")", POUND}

\* Python's \w: letters, digits, underscore.  Word tokens are runs of these.
IsWord(c) == ~IsSpace(c) /\ c \notin Punct

\* re.I: the case variants of the vocabulary fold to the regex's spelling.
CaseFold(c) ==
    CASE c = "MONDAY" -> "Monday"
      [] c = "tuesday" -> "Tuesday"
      [] c = "week" -> "Week"
      [] c = "ROUTE" -> "Route"
      [] c = "stops" -> "Stops"
      [] OTHER -> c

\* Width of PAD in characters: more than the 120 characters of the week
\* fallback window; two or three of them pass the 1200 of the region cap.
PadLen == 500

Width(c) ==
    CASE c = PAD -> PadLen
      [] c \in {NBSP, POUND} -> 1
      [] c = FRAG -> 1
      [] OTHER -> Len(c)

RECURSIVE CharLen(_)
\* len(s) in characters
CharLen(s) ==
    IF s = <<>> THEN 0
    ELSE IF Len(s) = 1 THEN Width(s[1])
    ELSE CharLen(SubSeq(s, 1, Len(s) \div 2)) + CharLen(SubSeq(s, Len(s) \div 2 + 1, Len(s)))

\* s[a:b] with token indexes: tokens a .. b-1
Slice(s, a, b) == SubSeq(s, a, b - 1)

Min(S) == CHOOSE x \in S : \A y \in S : x <= y
Max(S) == CHOOSE x \in S : \A y \in S : x >= y

\* a local variable: Body with its parameter bound to the value v
With(v, Body(_)) == Body(v)

-----------------------------------------------------------------------------
(* Regex primitives *)

\* A failed match (None)
NoMatch == [ok |-> FALSE, start |-> 0, end |-> 0, groups |-> <<>>]

Match(s, e, g) == [ok |-> TRUE, start |-> s, end |-> e, groups |-> g]

\* re.search over the attempts at every position: the leftmost match
Leftmost(ms) ==
    IF \A m \in ms : ~m.ok THEN NoMatch
    ELSE CHOOSE m \in ms : m.ok /\ \A n \in ms : n.ok => m.start <= n.start

\* a literal word at token i, under re.I
Lit(t, i, w) == i >= 1 /\ i <= Len(t) /\ CaseFold(t[i]) = w

RECURSIVE SkipWs(_, _)
\* greedy \s* from i: the first index at or after i that is not white space
SkipWs(t, i) == IF i <= Len(t) /\ IsSpace(t[i]) THEN SkipWs(t, i + 1) ELSE i

RECURSIVE SkipDigits(_, _)
\* greedy \d* from i
SkipDigits(t, i) == IF i <= Len(t) /\ IsDigit(t[i]) THEN SkipDigits(t, i + 1) ELSE i

\* [chars]? at i: the index after the optional character
OptChar(t, i, chars) == IF i <= Len(t) /\ t[i] \in chars THEN i + 1 ELSE i

\* \s*[:\-]?\s* at i: the index after it
SepWs(t, i) == SkipWs(t, OptChar(t, SkipWs(t, i), {":", "-"}))

\* ^ under re.M: start of text or just after a newline
AtLineStart(t, i) == i = 1 \/ (i > 1 /\ i <= Len(t) + 1 /\ t[i - 1] = "\n")

\* \b between token i-1 and token i
WordBoundary(t, i) ==
    LET before == i > 1 /\ i - 1 <= Len(t) /\ IsWord(t[i - 1])
        after == i >= 1 /\ i <= Len(t) /\ IsWord(t[i])
    IN before # after

RECURSIVE WordsWs(_, _, _)
\* w1\s*w2\s*...wn at i: the index after the match, 0 if none
WordsWs(t, i, ws) ==
    IF ws = <<>> THEN i
    ELSE IF ~Lit(t, i, Head(ws)) THEN 0
    ELSE IF Len(ws) = 1 THEN i + 1
    ELSE WordsWs(t, SkipWs(t, i + 1), Tail(ws))

RECURSIVE LitSeq(_, _, _)
\* a literal string (given as tokens) at i, under re.I: index after, 0 if none
LitSeq(t, i, lit) ==
    IF lit = <<>> THEN i
    ELSE IF i <= Len(t) /\ CaseFold(t[i]) = Head(lit) THEN LitSeq(t, i + 1, Tail(lit))
    ELSE 0

RECURSIVE LStrip(_)
LStrip(s) == IF s # <<>> /\ IsSpace(Head(s)) THEN LStrip(Tail(s)) ELSE s
RStrip(s) ==
    LET keep == {k \in 1..Len(s) : ~IsSpace(s[k])}
    IN IF keep = {} THEN <<>> ELSE SubSeq(s, 1, Max(keep))
\* str.strip()
Strip(s) == RStrip(LStrip(s))

\* re.sub(r"\s+", " ", s): every run of white space becomes one space, so
\* the first token of a run is kept as a space and the rest of it goes
CollapseWs(s) ==
    IF s = <<>> THEN <<>>
    ELSE With(SelectSeq([k \in 1..Len(s) |-> k],
                        LAMBDA k : ~(IsSpace(s[k]) /\ k > 1 /\ IsSpace(s[k - 1]))),
              LAMBDA kept :
                <<>> \o [j \in 1..Len(kept) |->
                            IF IsSpace(s[kept[j]]) THEN " " ELSE s[kept[j]]])

\* s.replace(a, b) for one-token a and b; b = <<>> deletes
Replace(s, a, b) ==
    IF s = <<>> THEN <<>>
    ELSE IF b = <<>> THEN SelectSeq(s, LAMBDA c : c # a)
    ELSE <<>> \o [k \in 1..Len(s) |-> IF s[k] = a THEN b[1] ELSE s[k]]

-----------------------------------------------------------------------------
(* int(), str(), float formatting *)

DigitVal(c) ==
    CASE c = "0" -> 0 [] c = "1" -> 1 [] c = "2" -> 2 [] c = "3" -> 3 [] c = "4" -> 4
      [] c = "5" -> 5 [] c = "6" -> 6 [] c = "7" -> 7 [] c = "8" -> 8 [] c = "9" -> 9

DigitChar(n) == <<"0", "1", "2", "3", "4", "5", "6", "7", "8", "9">>[n + 1]

IsDigits(s) == s # <<>> /\ \A k \in 1..Len(s) : IsDigit(s[k])

RECURSIVE ToInt(_)
\* int(s) for a string of decimal digits
ToInt(s) == IF s = <<>> THEN 0 ELSE ToInt(SubSeq(s, 1, Len(s) - 1)) * 10 + DigitVal(s[Len(s)])

RECURSIVE ToStr(_)
\* str(n) for n >= 0
ToStr(n) == IF n < 10 THEN <<DigitChar(n)>> ELSE ToStr(n \div 10) \o <<DigitChar(n % 10)>>

RECURSIVE ZeroPad(_, _)
\* zero-padded decimal of width w (format spec 0wd)
ZeroPad(n, w) == IF Len(ToStr(n)) >= w THEN ToStr(n) ELSE <<"0">> \o ZeroPad(n, w - 1)

ZeroMoney == <<"0", ".", "0", "0">>

\* money(text): strip the pound sign and commas, float(), two decimals.
\* float() is modelled on digits with at most one point and at most two
\* fractional digits (all parse_metrics_from_region's pattern can capture);
\* anything else over the alphabet of the texts is a ValueError -> "0.00".
money(text) ==
    IF text = <<>> THEN ZeroMoney
    ELSE LET t == Strip(Replace(Replace(text, POUND, <<>>), ",", <<>>))
             dots == {k \in 1..Len(t) : t[k] = "."}
             ip == IF dots = {} THEN t ELSE SubSeq(t, 1, Min(dots) - 1)
             fp == IF dots = {} THEN <<>> ELSE SubSeq(t, Min(dots) + 1, Len(t))
             isFloat == /\ Cardinality(dots) <= 1
                        /\ \A k \in 1..Len(t) : IsDigit(t[k]) \/ t[k] = "."
                        /\ ip \o fp # <<>>
                        /\ Len(fp) <= 2
         IN IF ~isFloat THEN ZeroMoney
            ELSE ToStr(ToInt(ip)) \o <<".">> \o SubSeq(fp \o <<"0", "0">>, 1, 2)

-----------------------------------------------------------------------------
(* datetime.date *)

IsLeap(y) == y % 4 = 0 /\ (y % 100 # 0 \/ y % 400 = 0)

DaysInMonth(y, m) ==
    IF m = 2 THEN (IF IsLeap(y) THEN 29 ELSE 28)
    ELSE IF m \in {4, 6, 9, 11} THEN 30 ELSE 31

RECURSIVE DaysBeforeMonth(_, _)
DaysBeforeMonth(y, m) == IF m <= 1 THEN 0 ELSE DaysBeforeMonth(y, m - 1) + DaysInMonth(y, m - 1)

Date(y, m, d) == [y |-> y, m |-> m, d |-> d]

Fail(msg) == [ok |-> FALSE, err |-> msg]

\* dt.date(y, m, d): ValueError outside the calendar
MakeDate(y, m, d) ==
    IF y < 1 \/ y > 9999 THEN Fail("year is out of range")
    ELSE IF m < 1 \/ m > 12 THEN Fail("month must be in 1..12")
    ELSE IF d < 1 \/ d > DaysInMonth(y, m) THEN Fail("day is out of range for month")
    ELSE [ok |-> TRUE, date |-> Date(y, m, d)]

\* date.toordinal(): 0001-01-01 is day 1
ToOrdinal(dt) ==
    LET y1 == dt.y - 1
    IN y1 * 365 + y1 \div 4 - y1 \div 100 + y1 \div 400 + DaysBeforeMonth(dt.y, dt.m) + dt.d

\* date.fromordinal(n), as CPython's _ord2ymd computes it
FromOrdinal(n) ==
    LET n0 == n - 1
        n400 == n0 \div 146097
        r400 == n0 % 146097
        n100 == r400 \div 36524
        r100 == r400 % 36524
        n4 == r100 \div 1461
        r4 == r100 % 1461
        n1 == r4 \div 365
        r1 == r4 % 365
        year == n400 * 400 + 1 + n100 * 100 + n4 * 4 + n1
    IN IF n1 = 4 \/ n100 = 4 THEN Date(year - 1, 12, 31)
       ELSE LET m == CHOOSE mm \in 1..12 :
                        /\ DaysBeforeMonth(year, mm) <= r1
                        /\ r1 < DaysBeforeMonth(year, mm) + DaysInMonth(year, mm)
            IN Date(year, m, r1 - DaysBeforeMonth(year, m) + 1)

\* date + timedelta(days=k); OverflowError below date.min
AddDays(dt, k) ==
    LET n == ToOrdinal(dt) + k
    IN IF n < 1 THEN Fail("date value out of range")
       ELSE [ok |-> TRUE, date |-> FromOrdinal(n)]

\* date.isoformat(): YYYY-MM-DD
isoformat(dt) == ZeroPad(dt.y, 4) \o <<"-">> \o ZeroPad(dt.m, 2) \o <<"-">> \o ZeroPad(dt.d, 2)

\* date.fromisoformat(s) for the YYYY-MM-DD form
fromisoformat(s) ==
    IF /\ Len(s) = 10
       /\ s[5] = "-" /\ s[8] = "-"
       /\ IsDigits(SubSeq(s, 1, 4)) /\ IsDigits(SubSeq(s, 6, 7)) /\ IsDigits(SubSeq(s, 9, 10))
    THEN MakeDate(ToInt(SubSeq(s, 1, 4)), ToInt(SubSeq(s, 6, 7)), ToInt(SubSeq(s, 9, 10)))
    ELSE Fail("Invalid isoformat string")

RECURSIVE Split(_, _)
\* s.split(sep) for a one-character sep
Split(s, sep) ==
    LET at == {k \in 1..Len(s) : s[k] = sep}
    IN IF at = {} THEN <<s>>
       ELSE <<SubSeq(s, 1, Min(at) - 1)>> \o Split(SubSeq(s, Min(at) + 1, Len(s)), sep)

\* int(x) succeeds on (white-space padded) decimal digits
IntOk(x) == IsDigits(Strip(x))

\* int(x) of a date part
IntOf(x) == ToInt(Strip(x))

\* if y < 100: y += 2000
FullYear(y) == IF y < 100 THEN y + 2000 ELSE y

parse_date_like(s) ==
    With(Split(Replace(Replace(Strip(s), "-", <<"/">>), ".", <<"/">>), "/"), LAMBDA parts :
        IF Len(parts) # 3 THEN Fail("Bad date")
        ELSE IF \E k \in 1..3 : ~IntOk(parts[k]) THEN Fail("invalid literal for int()")
        ELSE MakeDate(FullYear(IntOf(parts[3])), IntOf(parts[2]), IntOf(parts[1])))

-----------------------------------------------------------------------------
(* extract_meta *)

\* \s*[:.]?\s*([^\r\n]+) at p, in the regex engine's order of preference:
\* the index where group 1 starts, 0 if the tail does not match
GrabTail(t, p) ==
    LET cands == {c \in (p..SkipWs(t, p)) \X {0, 1} \X (p..(Len(t) + 1)) :
                    /\ c[2] = 1 => (c[1] <= Len(t) /\ t[c[1]] \in {":", "."})
                    /\ c[3] >= c[1] + c[2]
                    /\ c[3] <= SkipWs(t, c[1] + c[2])
                    /\ c[3] <= Len(t)
                    /\ t[c[3]] \notin {"\n", "\r"}}
        better(a, b) == \/ a[1] > b[1]
                        \/ a[1] = b[1] /\ a[2] > b[2]
                        \/ a[1] = b[1] /\ a[2] = b[2] /\ a[3] >= b[3]
    IN IF cands = {} THEN 0
       ELSE (CHOOSE a \in cands : \A b \in cands : better(a, b))[3]

\* the end of the line holding token i: index of its newline, or Len+1
LineEnd(t, i) ==
    LET nl == {k \in i..Len(t) : t[k] \in {"\n", "\r"}}
    IN IF nl = {} THEN Len(t) + 1 ELSE Min(nl)

\* the label and the tail at the line start i: where group 1 starts, 0 if
\* the pattern does not match at i
GrabAt(t, i, label) ==
    With(WordsWs(t, i, label), LAMBDA p :
        IF AtLineStart(t, i) /\ p # 0 THEN GrabTail(t, p) ELSE 0)

\* group 1 from q to the end of its line, stripped
GrabLine(t, q) == Strip(Slice(t, q, LineEnd(t, q)))

\* grab_line_value(page1_text, label_regex) for label_regex = ^w1\s*w2...
grab_line_value(page1_text, label) ==
    With({i \in 1..Len(page1_text) : GrabAt(page1_text, i, label) # 0}, LAMBDA hits :
        IF hits = {} THEN <<>>
        ELSE GrabLine(page1_text, GrabAt(page1_text, Min(hits), label)))

DateSeps == {".", "/", "-"}

\* [0-9]{1,2}[./-][0-9]{1,2}[./-][0-9]{2,4} at q; groups: whole, d, m, y
DateAt(t, q) ==
    With(SkipDigits(t, q), LAMBDA d1 :
    With(SkipDigits(t, d1 + 1), LAMBDA m1 :
    With(SkipDigits(t, m1 + 1), LAMBDA yend :
    With(Min({yend, m1 + 5}), LAMBDA y1 :
        IF /\ d1 - q \in {1, 2}
           /\ d1 <= Len(t) /\ t[d1] \in DateSeps
           /\ m1 - (d1 + 1) \in {1, 2}
           /\ m1 <= Len(t) /\ t[m1] \in DateSeps
           /\ y1 - (m1 + 1) >= 2
        THEN Match(q, y1, <<Slice(t, q, y1), Slice(t, q, d1), Slice(t, d1 + 1, m1),
                            Slice(t, m1 + 1, y1)>>)
        ELSE NoMatch))))

\* ^Week\s*ending\s*Saturday\s*[:\-]?\s*(date) at i
StrictWeekAt(t, i) ==
    With(WordsWs(t, i, <<"Week", "ending", "Saturday">>), LAMBDA e :
        IF AtLineStart(t, i) /\ e # 0
        THEN [DateAt(t, SepWs(t, e)) EXCEPT !.start = i]
        ELSE NoMatch)

\* re.search of the strict pattern
StrictWeekSearch(t) == Leftmost({StrictWeekAt(t, i) : i \in 1..Len(t)})

FallbackWindow == 120

\* Week.{0,120}?(\d{1,2})[./-](\d{1,2})[./-](\d{2,4}) at i: the lazy gap
\* stops at the first date no more than 120 characters after "Week"
FallbackWeekAt(t, i) ==
    With(Leftmost({DateAt(t, s) : s \in {s \in (i + 1)..Len(t) :
                        CharLen(Slice(t, i + 1, s)) <= FallbackWindow}}), LAMBDA date :
        IF Lit(t, i, "Week") /\ date.ok THEN [date EXCEPT !.start = i] ELSE NoMatch)

FallbackWeekSearch(t) == Leftmost({FallbackWeekAt(t, i) : i \in 1..Len(t)})

\* f"{m.group(1)}/{m.group(2)}/{m.group(3)}" of the fallback match
Slashed(m) == m.groups[2] \o <<"/">> \o m.groups[3] \o <<"/">> \o m.groups[4]

\* the text handed to parse_date_like: the strict capture, else the
\* fallback's three groups, else nothing
WeekEndingText(t) ==
    With(StrictWeekSearch(t), LAMBDA strict :
        IF strict.ok THEN [ok |-> TRUE, text |-> strict.groups[1]]
        ELSE With(FallbackWeekSearch(t), LAMBDA loose :
            IF loose.ok THEN [ok |-> TRUE, text |-> Slashed(loose)]
            ELSE Fail("Week ending Saturday date not found")))

\* the week-ending date of extract_meta
WeekEndingDate(t) ==
    With(WeekEndingText(t), LAMBDA found :
        IF found.ok THEN parse_date_like(found.text) ELSE found)

extract_meta(page1_text) ==
    With(WeekEndingDate(page1_text), LAMBDA sat :
        IF ~sat.ok THEN sat
        ELSE [ok |-> TRUE,
              meta |->
                ("Route No" :> grab_line_value(page1_text, <<"Route", "No">>))
                @@ ("Invoice No" :> grab_line_value(page1_text, <<"Invoice", "No">>))
                @@ ("Internal Reference" :>
                        grab_line_value(page1_text, <<"Internal", "Reference">>))
                @@ ("Contract Number" :> grab_line_value(page1_text, <<"Contract", "Number">>))
                @@ ("Cost Centre Code" :>
                        grab_line_value(page1_text, <<"Cost", "Centre", "Code">>))
                @@ ("WeekEnding" :> isoformat(sat.date))])

-----------------------------------------------------------------------------
(* build_day_region_map *)

DayNameSet == {DAY_NAMES[k] : k \in 1..Len(DAY_NAMES)}

\* the tokens whose line-anchored occurrences end a region
SentinelTokens ==
    {<<DAY_NAMES[k]>> : k \in 1..Len(DAY_NAMES)} \cup
    {<<"Route", " ", "No">>, <<"Week", " ", "ending">>, <<"Invoice", " ", "No">>,
     <<"Internal", " ", "Reference">>, <<"Contract", " ", "Number">>,
     <<"Cost", " ", "Centre", " ", "Code">>}

\* sorted(set(sentinels)): positions of ^token, re.I | re.M
Sentinels(t) ==
    {i \in 1..Len(t) : AtLineStart(t, i) /\ \E tok \in SentinelTokens : LitSeq(t, i, tok) # 0}

\* re.search(rf"^{day}\b:?", text, re.I | re.M): start positions
AnchoredDayStarts(t, day) ==
    {i \in 1..Len(t) : AtLineStart(t, i) /\ Lit(t, i, day) /\ WordBoundary(t, i + 1)}

\* re.search(rf"\b{day}\b:?", text, re.I): start positions
LooseDayStarts(t, day) ==
    {i \in 1..Len(t) : WordBoundary(t, i) /\ Lit(t, i, day) /\ WordBoundary(t, i + 1)}

RegionCap == 1200

\* s[:n] counted in characters; a word token cut by the slice leaves FRAG
CapChars(s, n) ==
    IF s = <<>> \/ n <= 0 THEN <<>>
    ELSE IF CharLen(s) <= n THEN s
    ELSE With(Max({k \in 0..Len(s) : CharLen(SubSeq(s, 1, k)) <= n}), LAMBDA whole :
            IF whole < Len(s) /\ CharLen(SubSeq(s, 1, whole)) < n
            THEN SubSeq(s, 1, whole) \o <<FRAG>>
            ELSE SubSeq(s, 1, whole))

\* m.start() of the first match, 0 for None
FirstOf(starts) == IF starts = {} THEN 0 ELSE Min(starts)

\* where the region of day starts: 0 when the day has no region
RegionStart(t, day) ==
    With(FirstOf(AnchoredDayStarts(t, day)), LAMBDA anchored :
        IF anchored # 0 THEN anchored ELSE FirstOf(LooseDayStarts(t, day)))

\* RegionEnd with the day names as the only sentinels
RegionEnd_DaysOnly(t, start) ==
    With({s \in Sentinels(t) : s > start /\ CaseFold(t[s]) \in DayNameSet}, LAMBDA ends :
        IF ends = {} THEN Len(t) + 1 ELSE Min(ends))

\* ends[0] if ends else len(page1_text)
RegionEnd(t, start) ==
    With({s \in Sentinels(t) : s > start}, LAMBDA ends :
        IF ends = {} THEN Len(t) + 1 ELSE Min(ends))

\* regions[day]
Region(t, day) ==
    With(RegionStart(t, day), LAMBDA start :
        IF start = 0 THEN <<>>
        ELSE CapChars(Slice(t, start, RegionEnd(t, start)), RegionCap))

build_day_region_map(page1_text) == [day \in DayNameSet |-> Region(page1_text, day)]

-----------------------------------------------------------------------------
(* parse_metrics_from_region *)

\* WORD\s*[:\-]?\s*(\d+) with WORD at j, for a match that starts at i
CountBody(t, i, j, word) ==
    With(SepWs(t, j + 1), LAMBDA q :
    With(SkipDigits(t, q), LAMBDA e :
        IF Lit(t, j, word) /\ e > q THEN Match(i, e, <<Slice(t, q, e)>>) ELSE NoMatch))

\* (?:Total\s+)? at i: the index after the optional prefix
OptTotal(t, i) ==
    IF Lit(t, i, "Total") /\ i + 1 <= Len(t) /\ IsSpace(t[i + 1]) THEN SkipWs(t, i + 1) ELSE i

\* (?:Total\s+)?WORD\s*[:\-]?\s*(\d+) at i
CountAt(t, i, word) == CountBody(t, i, OptTotal(t, i), word)

\* (?:[.,][0-9]{1,2})? at e: the index after the optional fraction
OptFraction(t, e) ==
    With(SkipDigits(t, e + 1), LAMBDA f :
        IF e <= Len(t) /\ t[e] \in {".", ","} /\ f > e + 1 THEN Min({f, e + 3}) ELSE e)

\* Payment\s*[:\-]?\s*£?\s*([0-9]+(?:[.,][0-9]{1,2})?) at i
PaymentAt(t, i) ==
    With(SkipWs(t, OptChar(t, SepWs(t, i + 1), {POUND})), LAMBDA q :
    With(SkipDigits(t, q), LAMBDA e1 :
    With(OptFraction(t, e1), LAMBDA e2 :
        IF Lit(t, i, "Payment") /\ e1 > q THEN Match(i, e2, <<Slice(t, q, e2)>>)
        ELSE NoMatch)))

SearchCount(t, word) == Leftmost({CountAt(t, i, word) : i \in 1..Len(t)})

SearchPayment(t) == Leftmost({PaymentAt(t, i) : i \in 1..Len(t)})

\* a or b, for match objects
OrElse(a, b) == IF a.ok THEN a ELSE b

ZeroMetrics == <<0, 0, ZeroMoney>>

\* int(m.group(1)) if m else 0
CountOf(m) == IF m.ok THEN ToInt(m.groups[1]) ELSE 0

\* money(m.group(1)) if m else "0.00"
PaymentOf(m) == IF m.ok THEN money(m.groups[1]) ELSE ZeroMoney

parse_metrics_from_region(seg) ==
    IF seg = <<>> THEN ZeroMetrics
    ELSE With(CollapseWs(seg), LAMBDA seg_norm :
        << CountOf(OrElse(SearchCount(seg, "Stops"), SearchCount(seg_norm, "Stops"))),
           CountOf(OrElse(SearchCount(seg, "Parcels"), SearchCount(seg_norm, "Parcels"))),
           PaymentOf(OrElse(SearchPayment(seg), SearchPayment(seg_norm))) >>)

-----------------------------------------------------------------------------
(* extract_days *)

\* the matches in ms that start at or after position from
After(ms, from) == {m \in ms : m.ok /\ m.start >= from}

\* the fallback pattern of extract_days at i:
\*   {day}\b.*?(Stops..)(\d+).*?(Parcels..)(\d+).*?Payment..(amount)
\* each lazy .*? stops at the first place from which the rest still matches
DayPatternAt(t, i, day) ==
    With(After({PaymentAt(t, q) : q \in 1..Len(t)}, 1), LAMBDA pays :
    With({m \in After({CountAt(t, p, "Parcels") : p \in 1..Len(t)}, 1) :
                After(pays, m.end) # {}}, LAMBDA parcels :
    With({m \in After({CountAt(t, s, "Stops") : s \in 1..Len(t)}, i + 1) :
                After(parcels, m.end) # {}}, LAMBDA stops :
        IF Lit(t, i, day) /\ WordBoundary(t, i + 1) /\ stops # {}
        THEN With(Leftmost(stops), LAMBDA s_m :
             With(Leftmost(After(parcels, s_m.end)), LAMBDA p_m :
             With(Leftmost(After(pays, p_m.end)), LAMBDA pay_m :
                Match(i, pay_m.end, <<s_m.groups[1], p_m.groups[1], pay_m.groups[1]>>))))
        ELSE NoMatch)))

DayPatternSearch(t, day) == Leftmost({DayPatternAt(t, i, day) : i \in 1..Len(t)})

\* the metrics of the fallback match
MetricsOf(m) == <<ToInt(m.groups[1]), ToInt(m.groups[2]), money(m.groups[3])>>

\* text_norm of extract_days
TextNorm(page1_text) == CollapseWs(Replace(page1_text, NBSP, <<" ">>))

\* the value extract_days leaves in out[day]
DayMetrics(page1_text, day) ==
    With(parse_metrics_from_region(build_day_region_map(page1_text)[day]), LAMBDA first :
        IF first # ZeroMetrics THEN first
        ELSE With(OrElse(DayPatternSearch(page1_text, day),
                         DayPatternSearch(TextNorm(page1_text), day)), LAMBDA m :
            IF m.ok THEN MetricsOf(m) ELSE first))

\* a dict is a sequence of <<key, value>> pairs in insertion order:
\* out starts empty and gets one entry per day of DAY_NAMES, in that order
extract_days(page1_text) ==
    <<>> \o [k \in 1..Len(DAY_NAMES) |->
                <<DAY_NAMES[k], DayMetrics(page1_text, DAY_NAMES[k])>>]

\* d.get(key, default)
DictGet(d, key, default) ==
    LET at == {k \in 1..Len(d) : d[k][1] = key}
    IN IF at = {} THEN default ELSE d[Min(at)][2]

-----------------------------------------------------------------------------
(* rows_for_csv, make_csv *)

\* offsets of a week that ends the day after its last row
offsets_DayEarly(day) ==
    CASE day = "Monday" -> -6 [] day = "Tuesday" -> -5 [] day = "Wednesday" -> -4
      [] day = "Thursday" -> -3 [] day = "Friday" -> -2 [] day = "Saturday" -> -1

offsets(day) ==
    CASE day = "Monday" -> -5 [] day = "Tuesday" -> -4 [] day = "Wednesday" -> -3
      [] day = "Thursday" -> -2 [] day = "Friday" -> -1 [] day = "Saturday" -> 0

\* meta.get(key, "")
MetaGet(m, key) == IF key \in DOMAIN m THEN m[key] ELSE <<>>

cols == <<"Date", "Route No", "Total Stops", "Total Parcels", "Payment",
          "Internal Reference", "Contract Number", "Cost Centre Code">>

\* RowFor with the figures of the k-th entry of the days map instead of
\* those of DAY_NAMES[k]
RowFor_Inserted(m, d, sat, k) ==
    LET day == DAY_NAMES[k]
        got == IF k <= Len(d) THEN d[k][2] ELSE ZeroMetrics
    IN ("Date" :> isoformat(AddDays(sat, offsets(day)).date))
       @@ ("Route No" :> MetaGet(m, "Route No"))
       @@ ("Total Stops" :> ToStr(got[1]))
       @@ ("Total Parcels" :> ToStr(got[2]))
       @@ ("Payment" :> got[3])
       @@ ("Internal Reference" :> MetaGet(m, "Internal Reference"))
       @@ ("Contract Number" :> MetaGet(m, "Contract Number"))
       @@ ("Cost Centre Code" :> MetaGet(m, "Cost Centre Code"))

\* the row appended for DAY_NAMES[k]
RowFor(m, d, sat, k) ==
    LET day == DAY_NAMES[k]
        got == DictGet(d, day, ZeroMetrics)
    IN ("Date" :> isoformat(AddDays(sat, offsets(day)).date))
       @@ ("Route No" :> MetaGet(m, "Route No"))
       @@ ("Total Stops" :> ToStr(got[1]))
       @@ ("Total Parcels" :> ToStr(got[2]))
       @@ ("Payment" :> got[3])
       @@ ("Internal Reference" :> MetaGet(m, "Internal Reference"))
       @@ ("Contract Number" :> MetaGet(m, "Contract Number"))
       @@ ("Cost Centre Code" :> MetaGet(m, "Cost Centre Code"))

\* rows starts empty and gets one row per day of DAY_NAMES
RowsFrom(m, d, sat) == <<>> \o [k \in 1..Len(DAY_NAMES) |-> RowFor(m, d, sat, k)]

rows_for_csv(m, d) ==
    IF "WeekEnding" \notin DOMAIN m THEN Fail("'WeekEnding'")
    ELSE LET sat == fromisoformat(m["WeekEnding"])
         IN IF ~sat.ok THEN sat
            ELSE IF ~AddDays(sat.date, offsets(DAY_NAMES[1])).ok
                 THEN Fail("date value out of range")
            ELSE [ok |-> TRUE, rows |-> RowsFrom(m, d, sat.date)]

\* the CSV as its lines of cells: the header, then one line per row
make_csv(rs) ==
    <<cols>> \o [k \in 1..Len(rs) |-> [j \in 1..Len(cols) |-> rs[k][cols[j]]]]

-----------------------------------------------------------------------------
(* process_url, healthz *)

\* a local the handler did not reach
Unset == <<>>

Ok200(content) == [status |-> 200, error |-> "", content |-> content]
Err400(msg) == [status |-> 400, error |-> msg, content |-> <<>>]

-----------------------------------------------------------------------------
(* The documents the handlers are run on *)

RouteLines ==
    { <<>>,
      <<"Route", " ", "No", ".", ":", " ", "2", "3", "3", "\n">>,
      <<"ROUTE", " ", "No", " ", "2", "3", "3", " ", "North", "\n">> }

InvoiceLines ==
    { <<>>,
      <<"Invoice", " ", "No", ".", "*", ":", " ", "LON", "2", "3", "3", "2", "5", "2", "4", "\n">>,
      <<"Invoice", " ", "No", ":", " ", "LON", "-", "7", "\n">> }

WeekLines ==
    { <<>>,
      <<"Week", " ", "ending", " ", "Saturday", ":", "1", "4", ".", "0", "9", ".", "2", "5", "\n">>,
      <<"Week", " ", "ending", " ", "Saturday", ":", " ", "1", "4", ".", "0", "9", ".",
        "2", "0", "2", "5", "\n">>,
      <<"Week", " ", "ending", " ", "Saturday", " ", "1", "4", "/", "0", "9", "/",
        "2", "0", "2", "\n">>,
      <<"Week", " ", "ending", " ", "Saturday", ":", " ", "0", "3", "-", "0", "1", "-",
        "2", "6", "\n">>,
      <<"Week", " ", "ending", " ", "Saturday", ":", " ", "3", "1", ".", "0", "2", ".",
        "2", "5", "\n">>,
      <<"week", " ", "ending", " ", "1", "4", ".", "0", "9", ".", "2", "5", "\n">>,
      <<"Week", "ly", " ", "report", " ", "1", "4", ".", "0", "9", ".", "2", "5", "\n">>,
      <<"Week", " ", "ending", " ", "Saturday", " ", PAD, " ", "1", "4", ".", "0", "9", ".",
        "2", "5", "\n">>,
      <<"Printed", " ", "0", "1", ".", "0", "2", ".", "2", "5", "\n">>,
      <<"Week", "ly", " ", "0", "1", ".", "0", "1", ".", "2", "4", "\n",
        "Week", " ", "ending", " ", "Saturday", ":", " ", "1", "4", ".", "0", "9", ".",
        "2", "5", "\n">> }

OtherHeaderLines ==
    <<"Internal", " ", "Reference", ":", " ", "IR", "7", "\n",
      "Contract", " ", "Number", ":", " ", "C", "-", "9", "\n",
      "Cost", " ", "Centre", " ", "Code", ":", " ", "P", "4", "4", "0", "\n">>

StdHeader ==
    <<"Route", " ", "No", ":", " ", "2", "3", "3", "\n",
      "Invoice", " ", "No", ":", " ", "LON", "7", "\n",
      "Week", " ", "ending", " ", "Saturday", ":", "1", "4", ".", "0", "9", ".", "2", "5", "\n">>

DayBlocks ==
    { <<"Monday", " ", "Total", " ", "Stops", ":", " ", "1", "0", "7", " ", "Total", " ",
        "Parcels", ":", " ", "2", "2", "6", " ", "Payment", ":", "2", "8", "1", ".", "9", "3",
        "\n">>,
      <<"Tuesday", "\n", "Stops", ":", " ", "5", "\n", "Parcels", ":", " ", "7", "\n",
        "Payment", ":", " ", POUND, "1", ",", "2", "3", "4", ".", "5", "6", "\n">>,
      <<"Wednesday", "\n">>,
      <<"Thursday", " ", "Stops", " ", "3", " ", "Parcels", " ", "4", " ", "Payment", ":", " ",
        "2", " ", "8", " ", "1", " ", ".", " ", "9", " ", "3", "\n">>,
      <<"Friday", " ", "Stops", ":", " ", "9", " ", "Parcels", ":", " ", "2", " ",
        "Payment", ":", " ", "2", "8", "1", ".", "9", "\n">>,
      <<"see", " ", "Saturday", " ", "Stops", ":", " ", "1", " ", "Parcels", ":", " ", "1",
        " ", "Payment", ":", " ", "5", "\n">>,
      <<"MONDAY", ":", " ", "stops", ":", " ", "8", " ", "Parcels", ":", " ", "8", " ",
        "Payment", ":", " ", "8", "\n">>,
      <<"Monday", " ", PAD, " ", PAD, " ", PAD, " ", "Stops", ":", " ", "4", " ",
        "Parcels", ":", " ", "4", " ", "Payment", ":", " ", "4", ".", "0", "0", "\n">>,
      <<"tuesday", " ", "Stops", ":", " ", "2", "\n",
        "Cost", " ", "Centre", " ", "Code", ":", " ", "7", "7", "\n",
        "Parcels", ":", " ", "6", " ", "Payment", ":", " ", "1", ".", "5", "\n">>,
      <<"Monday", "s", " ", "Stops", ":", " ", "6", " ", "Parcels", ":", " ", "6", " ",
        "Payment", ":", " ", "6", "\n">>,
      <<"Wednesday", " ", "Stops", ":", " ", "1", "2", " ", "Parcels", ":", " ", "3", "0", " ",
        "Payment", ":", " ", "4", "5", ",", "5", "0", " ", "and", " ",
        "Friday", " ", "Stops", ":", " ", "1", " ", "Parcels", ":", " ", "2", " ",
        "Payment", ":", " ", "3", "\n">> }

\* the most day blocks in one document
MaxDayBlocks == 2

RECURSIVE Bodies(_)
\* the concatenations of at most n day blocks
Bodies(n) ==
    IF n = 0 THEN {<<>>}
    ELSE Bodies(n - 1) \cup {b \o blk : b \in Bodies(n - 1), blk \in DayBlocks}

StdBody ==
    <<"Monday", " ", "Total", " ", "Stops", ":", " ", "1", "0", "7", " ", "Total", " ",
      "Parcels", ":", " ", "2", "2", "6", " ", "Payment", ":", "2", "8", "1", ".", "9", "3", "\n">>

PageTexts ==
    {<<>>}
    \cup {r \o i \o w \o OtherHeaderLines \o StdBody :
            r \in RouteLines, i \in InvoiceLines, w \in WeekLines}
    \cup {StdHeader \o b : b \in Bodies(MaxDayBlocks)}

\* what the fetch and the PDF decoder can hand to process_url
Fetches ==
    {[ok |-> FALSE, pages |-> <<>>], [ok |-> TRUE, pages |-> <<>>]}
    \cup {[ok |-> TRUE, pages |-> <<t>>] : t \in PageTexts}
    \cup {[ok |-> TRUE, pages |-> <<StdHeader \o StdBody, <<"Week">>>>]}

-----------------------------------------------------------------------------
(* The service *)

Init ==
    /\ pc = "idle"
    /\ page1 = Unset
    /\ meta = Unset
    /\ regions = Unset
    /\ days = Unset
    /\ rows = Unset
    /\ response = Ok200(<<>>)

\* process_url raises HTTPException(400, msg) with page1 as far as it got
Abort(p1, msg) ==
    /\ page1' = p1
    /\ meta' = Unset
    /\ regions' = Unset
    /\ days' = Unset
    /\ rows' = Unset
    /\ response' = Err400(msg)

\* POST /process/url, for a fetch result [ok, pages]: ok is whether
\* requests.get / raise_for_status succeeded, pages the text pdfplumber
\* extracts from each page ("" for a page with none). Each local is
\* computed before the statements that follow it.
ProcessUrl(fetched) ==
    /\ pc = "idle"
    /\ pc' = "process_url"
    /\ IF ~fetched.ok THEN Abort(Unset, "request failed")
       ELSE IF fetched.pages = <<>> THEN Abort(Unset, "No pages in PDF")
       ELSE \E m \in {extract_meta(fetched.pages[1])} :
            IF ~m.ok THEN Abort(fetched.pages[1], m.err)
            ELSE \E d \in {extract_days(fetched.pages[1])} :
                 \E r \in {rows_for_csv(m.meta, d)} :
                    /\ page1' = fetched.pages[1]
                    /\ meta' = m.meta
                    /\ regions' = build_day_region_map(fetched.pages[1])
                    /\ days' = d
                    /\ rows' = (IF r.ok THEN r.rows ELSE Unset)
                    /\ response' = (IF r.ok THEN Ok200(make_csv(r.rows)) ELSE Err400(r.err))

\* GET /healthz
Healthz ==
    /\ pc = "idle"
    /\ pc' = "healthz"
    /\ response' = Ok200(<<<<"status", "ok">>>>)
    /\ UNCHANGED <<page1, meta, regions, days, rows>>

\* the response has been sent; the invocation's locals are gone
Return ==
    /\ pc # "idle"
    /\ pc' = "idle"
    /\ page1' = Unset
    /\ meta' = Unset
    /\ regions' = Unset
    /\ days' = Unset
    /\ rows' = Unset
    /\ response' = Ok200(<<>>)

Next ==
    \/ \E fetched \in Fetches : ProcessUrl(fetched)
    \/ Healthz
    \/ Return

Spec == Init /\ [][Next]_vars

-----------------------------------------------------------------------------
(* rows_for_csv on the metadata and days maps it can be handed *)

\* the years at whose turn, and in whose following February, weeks end:
\* 2000 is a leap century year, 2024 a leap year, 2100 a century year
TurnYears == {1999, 2023, 2099}

\* the Saturdays from 20 December of y to 10 March of y + 1 (day 1 of the
\* calendar, 0001-01-01, is a Monday)
SaturdaysAround(y) ==
    {n \in ToOrdinal(Date(y, 12, 20))..ToOrdinal(Date(y + 1, 3, 10)) : n % 7 = 6}

\* meta["WeekEnding"]: Saturdays, the first Saturday of the calendar, a
\* Wednesday, a day less than five days into the calendar, and two strings
\* fromisoformat rejects
WeekEndings ==
    {isoformat(FromOrdinal(n)) : n \in UNION {SaturdaysAround(y) : y \in TurnYears}}
    \cup {isoformat(Date(1, 1, 6)), isoformat(Date(2025, 9, 17)), isoformat(Date(1, 1, 3)),
          <<"2", "0", "2", "5", "-", "0", "2", "-", "3", "0">>,
          <<"1", "4", ".", "0", "9", ".", "2", "5">>}

\* a metadata map as extract_meta builds it
FullMeta(we) ==
    ("Route No" :> <<"2", "3", "3">>)
    @@ ("Invoice No" :> <<"LON", "7">>)
    @@ ("Internal Reference" :> <<"IR", "7">>)
    @@ ("Contract Number" :> <<"C", "-", "9">>)
    @@ ("Cost Centre Code" :> <<"P", "4", "4", "0">>)
    @@ ("WeekEnding" :> we)

\* the metadata maps: full, with only the keys rows_for_csv needs, without
\* WeekEnding
RowMetas ==
    {FullMeta(we) : we \in WeekEndings}
    \cup {("Route No" :> <<"7">>) @@ ("WeekEnding" :> we) : we \in WeekEndings}
    \cup {("Route No" :> <<"7">>)}

\* the entry of a days map for DAY_NAMES[k]: figures that differ by day
Entry(k) == <<DAY_NAMES[k], <<k, 10 + k, ToStr(k) \o <<".", "5", "0">>>>>>

\* the most entries of a days map that holds some of the days
MaxDayEntries == 2

RECURSIVE DayMapsOf(_)
\* the days maps of n entries: distinct days, in every insertion order
DayMapsOf(n) ==
    IF n = 0 THEN {<<>>}
    ELSE UNION {{Append(d, Entry(k)) :
                    k \in {k \in 1..Len(DAY_NAMES) : \A j \in 1..Len(d) : d[j] # Entry(k)}} :
                d \in DayMapsOf(n - 1)}

\* the days maps: some of the days, all six as extract_days inserts them,
\* all six in the opposite order
DayMaps ==
    UNION {DayMapsOf(n) : n \in 0..MaxDayEntries}
    \cup {[k \in 1..Len(DAY_NAMES) |-> Entry(k)],
          [k \in 1..Len(DAY_NAMES) |-> Entry(Len(DAY_NAMES) + 1 - k)]}

RowCalls == {[meta |-> m, days |-> d] : m \in RowMetas, d \in DayMaps}

\* process_url from rows_for_csv on, with meta and days as given
RowsForCsv(call) ==
    /\ pc = "idle"
    /\ pc' = "rows_for_csv"
    /\ meta' = call.meta
    /\ days' = call.days
    /\ \E r \in {rows_for_csv(call.meta, call.days)} :
        /\ rows' = (IF r.ok THEN r.rows ELSE Unset)
        /\ response' = (IF r.ok THEN Ok200(make_csv(r.rows)) ELSE Err400(r.err))
    /\ UNCHANGED <<page1, regions>>

NextRows ==
    \/ \E call \in RowCalls : RowsForCsv(call)
    \/ Return

SpecRows == Init /\ [][NextRows]_vars

-----------------------------------------------------------------------------
(* Properties *)

\* process_url got the first page's text: extract_meta was called on page1
ReadPage ==
    /\ pc = "process_url"
    /\ response.error \notin {"request failed", "No pages in PDF"}

\* process_url returned the CSV
Returned == pc = "process_url" /\ response.status = 200

\* the labels of grab_line_value, as the words of their patterns
MetaLabels ==
    ("Route No" :> <<"Route", "No">>)
    @@ ("Invoice No" :> <<"Invoice", "No">>)
    @@ ("Internal Reference" :> <<"Internal", "Reference">>)
    @@ ("Contract Number" :> <<"Contract", "Number">>)
    @@ ("Cost Centre Code" :> <<"Cost", "Centre", "Code">>)

\* the mandatory fields that cannot be extracted from the text
MissingFields(t) ==
    {f \in {"Route No", "Invoice No"} : grab_line_value(t, MetaLabels[f]) = <<>>}
    \cup (IF WeekEndingText(t).ok THEN {} ELSE {"WeekEnding"})

\* C1: whenever Route No, Invoice No or the week-ending date cannot be
\* extracted from the page text, process_url ends in an error and produces
\* no rows.
C1_MissingFieldsAreFatal ==
    (ReadPage /\ MissingFields(page1) # {}) =>
        /\ response.status = 400
        /\ rows = Unset

\* the block of a day from its header to the next sentinel, before the cap
OwnBlock(t, day) ==
    IF RegionStart(t, day) = 0 THEN <<>>
    ELSE Slice(t, RegionStart(t, day), RegionEnd(t, RegionStart(t, day)))

\* C2: for every day, extract_days returns the figures printed in the day's
\* own block, and (0, 0, "0.00") when the day has no block or its block holds
\* no figures: never the figures of another day's block.
C2_FiguresOfOwnBlock ==
    Returned =>
        \A k \in 1..Len(DAY_NAMES) :
            DictGet(days, DAY_NAMES[k], ZeroMetrics)
                = parse_metrics_from_region(OwnBlock(page1, DAY_NAMES[k]))

\* the first line-anchored occurrence of a label: the index after it, 0 if none
LabelEnd(t, words) ==
    LET at == {i \in 1..Len(t) : AtLineStart(t, i) /\ WordsWs(t, i, words) # 0}
    IN IF at = {} THEN 0 ELSE WordsWs(t, Min(at), words)

RECURSIVE SkipWhile(_, _, _)
\* the first index at or after i whose token is not in chars
SkipWhile(t, i, chars) ==
    IF i <= Len(t) /\ t[i] \in chars THEN SkipWhile(t, i + 1, chars) ELSE i

RECURSIVE RunEnd(_, _)
\* the end of the run of word characters, hyphens and slashes from i
RunEnd(t, i) ==
    IF i <= Len(t) /\ (IsWord(t[i]) \/ t[i] \in {"-", "/"}) THEN RunEnd(t, i + 1) ELSE i

\* the first run of word characters, hyphens and slashes after a label and
\* its optional period, asterisk, colon and blanks
ValueRun(t, words) ==
    LET from == SkipWhile(t, LabelEnd(t, words), {".", "*", ":", " ", "\t", NBSP})
    IN Slice(t, from, RunEnd(t, from))

\* C3: the value extracted for a metadata label is exactly the first run of
\* word characters, hyphens and slashes after the label, without the label's
\* punctuation and without the text that follows the run.
C3_ValueIsFirstRun ==
    Returned =>
        \A f \in DOMAIN MetaLabels :
            LabelEnd(page1, MetaLabels[f]) # 0 => meta[f] = ValueRun(page1, MetaLabels[f])

\* the text holds a week-ending label: "Week ending" or "Week end"
HasWeekEndingLabel(t) ==
    \E i \in 1..Len(t) :
        \/ WordsWs(t, i, <<"Week", "ending">>) # 0
        \/ WordsWs(t, i, <<"Week", "end">>) # 0

\* C4: a text without any week-ending label ends in the error "Week ending
\* Saturday date not found": no date is taken from another date-like
\* triplet of the text.
C4_NoLabelNoDate ==
    (ReadPage /\ ~HasWeekEndingLabel(page1)) =>
        response = Err400("Week ending Saturday date not found")

\* the calendar day after dt
NextDay(dt) ==
    IF dt.d < DaysInMonth(dt.y, dt.m) THEN Date(dt.y, dt.m, dt.d + 1)
    ELSE IF dt.m < 12 THEN Date(dt.y, dt.m + 1, 1)
    ELSE Date(dt.y + 1, 1, 1)

\* rows_for_csv returned its rows
RowsReturned == pc = "rows_for_csv" /\ response.status = 200

\* the date of row k
RowDate(k) == fromisoformat(rows[k]["Date"])

\* C5: the rows of rows_for_csv carry exactly six dates, each the calendar
\* day after the one before, the last the week-ending day S and the first
\* five days before S.
C5_SixConsecutiveDates ==
    RowsReturned =>
        /\ Len(rows) = 6
        /\ \A k \in 1..6 : RowDate(k).ok
        /\ RowDate(6) = fromisoformat(meta["WeekEnding"])
        /\ \A k \in 1..5 : RowDate(k + 1).date = NextDay(RowDate(k).date)
        /\ ToOrdinal(RowDate(1).date) = ToOrdinal(RowDate(6).date) - 5

\* C5 witness: a week that starts in one year and ends in the next
C5_Witness ==
    /\ RowsReturned
    /\ RowDate(1).date.y + 1 = RowDate(6).date.y
    /\ ToOrdinal(RowDate(6).date) % 7 = 6

\* the figures a days map holds for a day, (0, 0, "0.00") for a day it lacks
Held(d, day) ==
    IF \E j \in 1..Len(d) : d[j][1] = day
    THEN (CHOOSE e \in {d[j] : j \in 1..Len(d)} : e[1] = day)[2]
    ELSE <<0, 0, <<"0", ".", "0", "0">>>>

\* meta.get(key, "") as the rows must show it
Shown(key) == IF key \in DOMAIN meta THEN meta[key] ELSE <<>>

\* C6: rows_for_csv returns six rows, the k-th for the k-th day of Monday to
\* Saturday whatever the order of the days map, with that day's figures or
\* 0, 0, "0.00" for a day the map lacks, and all six with the metadata values.
C6_SixRowsInDayOrder ==
    RowsReturned =>
        /\ Len(rows) = 6
        /\ \A k \in 1..6 :
            /\ ToOrdinal(RowDate(k).date)
                  = ToOrdinal(fromisoformat(meta["WeekEnding"]).date) - (6 - k)
            /\ rows[k]["Total Stops"] = ToStr(Held(days, DAY_NAMES[k])[1])
            /\ rows[k]["Total Parcels"] = ToStr(Held(days, DAY_NAMES[k])[2])
            /\ rows[k]["Payment"] = Held(days, DAY_NAMES[k])[3]
            /\ \A key \in {"Route No", "Internal Reference", "Contract Number",
                           "Cost Centre Code"} : rows[k][key] = Shown(key)

\* C6 witness: rows for a days map that lacks a day and whose first entry
\* is not Monday's
C6_Witness ==
    /\ RowsReturned
    /\ Len(days) \in 1..5
    /\ days[1][1] # "Monday"
    /\ rows[1]["Payment"] = <<"0", ".", "0", "0">>

\* a digit or a decimal point
IsFigure(c) == IsDigit(c) \/ c = "."

RECURSIVE Dekern(_)
\* the text with the single spaces between digits and decimal points closed
Dekern(s) ==
    IF Len(s) < 3 THEN s
    ELSE IF IsFigure(s[1]) /\ s[2] = " " /\ IsFigure(s[3])
         THEN Dekern(<<s[1]>> \o SubSeq(s, 3, Len(s)))
    ELSE <<s[1]>> \o Dekern(Tail(s))

\* C7: a day block whose numbers are printed with single spaces between
\* their digits and decimal point yields the figures of the block with
\* those gaps closed ("2 8 1 . 9 3" yields "281.93").
C7_KernedFiguresReassembled ==
    Returned =>
        \A k \in 1..Len(DAY_NAMES) :
            Dekern(regions[DAY_NAMES[k]]) # regions[DAY_NAMES[k]] =>
                DictGet(days, DAY_NAMES[k], ZeroMetrics)
                    = parse_metrics_from_region(Dekern(regions[DAY_NAMES[k]]))

\* the amount printed after the first Payment label of a block: the digits,
\* commas and points that follow the optional pound sign
PrintedAmount(seg) ==
    LET at == {i \in 1..Len(seg) : Lit(seg, i, "Payment")}
        from == SkipWs(seg, OptChar(seg, SepWs(seg, Min(at) + 1), {POUND}))
    IN IF at = {} THEN <<>>
       ELSE Slice(seg, from, SkipWhile(seg, from, Digits \cup {",", "."}))

\* C8: the Payment of a day is the amount printed in its block without the
\* currency symbol and the thousands separators, with two fractional digits.
C8_PaymentIsPrintedAmount ==
    Returned =>
        \A k \in 1..Len(DAY_NAMES) :
            PrintedAmount(regions[DAY_NAMES[k]]) # <<>> =>
                DictGet(days, DAY_NAMES[k], ZeroMetrics)[3]
                    = money(PrintedAmount(regions[DAY_NAMES[k]]))

\* the year digits of the date extract_meta takes from the text
WeekYearDigits(t) ==
    IF StrictWeekSearch(t).ok THEN StrictWeekSearch(t).groups[4]
    ELSE FallbackWeekSearch(t).groups[4]

\* C9: a week-ending date is accepted only with a year of 2 or 4 digits.
C9_YearOfTwoOrFourDigits ==
    Returned => Len(WeekYearDigits(page1)) \in {2, 4}

\* a whole-word occurrence of a day name at i, in any case
DayWordAt(t, i, day) == WordBoundary(t, i) /\ Lit(t, i, day) /\ WordBoundary(t, i + 1)

\* the block the claim describes: from the first whole-word occurrence of
\* the day's name to the next occurrence of another day's name
ClaimedBlock(t, day) ==
    LET starts == {i \in 1..Len(t) : DayWordAt(t, i, day)}
        ends == {e \in 1..Len(t) : e > Min(starts) /\
                    \E other \in DayNameSet \ {day} : DayWordAt(t, e, other)}
    IN IF starts = {} THEN <<>>
       ELSE CapChars(Slice(t, Min(starts), IF ends = {} THEN Len(t) + 1 ELSE Min(ends)),
                     RegionCap)

\* C10 as claimed: the block of a day runs from the first whole-word
\* occurrence of its name to the next occurrence of one of the five other
\* day names (the end of the text if none), cut to 1200 characters.
C10_FirstWordToNextOtherDay ==
    Returned =>
        \A k \in 1..Len(DAY_NAMES) :
            regions[DAY_NAMES[k]] = ClaimedBlock(page1, DAY_NAMES[k])

RECURSIVE Spaced(_)
\* the words of a label with one space between them
Spaced(ws) == IF Len(ws) <= 1 THEN ws ELSE <<Head(ws), " ">> \o Spaced(Tail(ws))

\* a line starts at i with a day name or with a metadata label
SentinelLine(t, i) ==
    /\ AtLineStart(t, i)
    /\ i <= Len(t)
    /\ \/ CaseFold(t[i]) \in DayNameSet
       \/ \E f \in DOMAIN MetaLabels : LitSeq(t, i, Spaced(MetaLabels[f])) # 0
       \/ LitSeq(t, i, <<"Week", " ", "ending">>) # 0

\* s is where the code starts the block of day: the first line that starts
\* with the day's name as a whole word, else its first whole-word occurrence
BlockStart(t, day, s) ==
    LET anchored(i) == AtLineStart(t, i) /\ Lit(t, i, day) /\ WordBoundary(t, i + 1)
    IN \/ anchored(s) /\ \A i \in 1..(s - 1) : ~anchored(i)
       \/ /\ DayWordAt(t, s, day) /\ \A i \in 1..(s - 1) : ~DayWordAt(t, i, day)
          /\ \A i \in 1..Len(t) : ~anchored(i)

\* e is where the block that starts at s ends: the next line after s that
\* starts with a day name (the day's own included) or a metadata label
BlockEnd(t, s, e) ==
    /\ e > s
    /\ e = Len(t) + 1 \/ SentinelLine(t, e)
    /\ \A i \in (s + 1)..(e - 1) : ~SentinelLine(t, i)

\* C10 as the code has it: the block starts at the first line that starts
\* with the day's name, else at its first whole-word occurrence; it ends at
\* the next line that starts with any day name or metadata label, else at
\* the end of the text; it is cut to 1200 characters; a day whose name does
\* not occur as a whole word gets the empty block.
C10_LineStartToNextSentinel ==
    Returned =>
        \A k \in 1..Len(DAY_NAMES) :
            /\ (\A i \in 1..Len(page1) : ~DayWordAt(page1, i, DAY_NAMES[k]))
                    => regions[DAY_NAMES[k]] = <<>>
            /\ \A s \in 1..Len(page1) :
                    BlockStart(page1, DAY_NAMES[k], s) =>
                        \A e \in (s + 1)..(Len(page1) + 1) :
                            BlockEnd(page1, s, e) =>
                                regions[DAY_NAMES[k]] = CapChars(Slice(page1, s, e), RegionCap)

\* C10 witness: the block of a day ended by a metadata label that stands
\* in the middle of the day's figures
C10_Witness ==
    /\ Returned
    /\ \E k \in 1..Len(DAY_NAMES) : \E s \in 1..Len(page1) :
          /\ BlockStart(page1, DAY_NAMES[k], s)
          /\ \E e \in (s + 1)..Len(page1) :
                BlockEnd(page1, s, e) /\ page1[e] = "Cost"
          /\ regions[DAY_NAMES[k]] # <<>>

=============================================================================
